---- MODULE Spec2Model ----
(***************************************************************************)
(* SimulatedAnnealingAlgorithm (simulated_annealing_algo.py) as a state    *)
(* machine.                                                                *)
(*                                                                         *)
(* Numbers.  Python floats are carried as exact rationals <<n, d>> in      *)
(* lowest terms; a division by zero raises ZeroDivisionError before any    *)
(* quotient exists.  Float rounding, and overflow and underflow of         *)
(* math.exp, are outside the model.                                        *)
(*                                                                         *)
(* Objects.  Lists of device dicts are heap objects named by references,   *)
(* so that copy.deepcopy, aliasing (meilleure_solution = solution_actuelle)*)
(* and in-place mutation (eqt["state"] = not eqt["state"]) are what the    *)
(* code makes them.  An object lives as long as something refers to it.    *)
(*                                                                         *)
(* Randomness.  random.choice(usable) is a choice of a position of usable; *)
(* random.random() returns seuil in [0,1), carried as ln(seuil) (ZeroSeuil *)
(* for seuil = 0.0), so that seuil < math.exp(x) is decided exactly as     *)
(* ln(seuil) < x.                                                          *)
(***************************************************************************)
EXTENDS Integers, Sequences, FiniteSets, TLC

\* ------------------------------------------------------------------ bounds
MaxDevices == 2
MaxIter == 2

\* ------------------------------------------------------- optional values
\* Python's None / an attribute or local that is not bound yet.
None == <<>>
Some(v) == <<v>>
Val(o) == o[1]
IsNone(o) == o = <<>>

\* ------------------------------------------------------------- rationals
\* A float is the rational <<n, d>> in lowest terms with d > 0.
RECURSIVE GCD(_, _)
GCD(a, b) == IF b = 0 THEN a ELSE GCD(b, a % b)
Abs(x) == IF x < 0 THEN -x ELSE x
Rat(n, d) ==
    LET g == GCD(Abs(n), Abs(d))
        sg == IF d < 0 THEN -1 ELSE 1
    IN  << (sg * n) \div g, (sg * d) \div g >>
Num(r) == r[1]
Den(r) == r[2]
IntRat(n) == << n, 1 >>
RatLt(r, s) == Num(r) * Den(s) < Num(s) * Den(r)
RatLe(r, s) == Num(r) * Den(s) <= Num(s) * Den(r)
RatAdd(r, s) == Rat(Num(r) * Den(s) + Num(s) * Den(r), Den(r) * Den(s))
RatSub(r, s) == Rat(Num(r) * Den(s) - Num(s) * Den(r), Den(r) * Den(s))
RatMul(r, s) == Rat(Num(r) * Num(s), Den(r) * Den(s))
\* r / s for s # 0 (Python raises ZeroDivisionError before dividing by zero).
RatDiv(r, s) == Rat(Num(r) * Den(s), Den(r) * Num(s))
RatIsZero(r) == Num(r) = 0

\* ---------------------------------------------------------------- inputs
\* The two call frames that may be active on the one solver instance.
Calls == {1, 2}

DeviceNames == <<"A", "B", "C", "D">>
\* ManagedDevice as the algorithm reads it: name, power_max, is_active, is_usable.
\* The device at position i is named DeviceNames[i] and has power_max = i.
DevicesAt(i) ==
    { [name |-> DeviceNames[i], power_max |-> i, is_active |-> a, is_usable |-> u] :
        a \in BOOLEAN, u \in BOOLEAN }
RECURSIVE DeviceListsOfLen(_)
DeviceListsOfLen(n) ==
    IF n = 0 THEN { <<>> }
    ELSE { Append(l, d) : l \in DeviceListsOfLen(n - 1), d \in DevicesAt(n) }
DeviceLists == UNION { DeviceListsOfLen(n) : n \in 0..MaxDevices }

PowerConsumptions == { None, Some(-2), Some(1) }
SolarProductions == { None, Some(0), Some(3) }
SellCosts == { None, Some(1) }
BuyCosts == { None, Some(0), Some(1) }
SellTaxPercents == { None, Some(0), Some(100) }

Args ==
    [ devices : DeviceLists,
      power_consumption : PowerConsumptions,
      solar_power_production : SolarProductions,
      sell_cost : SellCosts,
      buy_cost : BuyCosts,
      sell_tax_percent : SellTaxPercents ]

\* Constructor arguments.
InitialTemps == { 0, 1, 3, 4 }
MinTemps == { 2 }
CoolingFactors == { Rat(1, 2), IntRat(1) }
MaxIterationNumbers == 0..MaxIter

VARIABLES
    self,    \* the solver instance's attributes (class defaults until assigned)
    heap,    \* reference -> list of device dicts (the live list objects)
    frame    \* per call of recuit_simule: its position, arguments, locals, outcome

vars == << self, heap, frame >>

\* ------------------------------------------------------------------ heap
NoRef == 0
\* The reference of a newly created object.
NewRef(h) ==
    LET S == 1..(Cardinality(DOMAIN h) + 1)
    IN  CHOOSE r \in S : r \notin DOMAIN h /\ \A q \in S : q \notin DOMAIN h => r <= q
Alloc(h, v) == (NewRef(h) :> v) @@ h
\* No copy: the "copy" is the object itself.
deepcopy_alias(h, r) == [ heap |-> h, ref |-> r ]

\* copy.deepcopy(h[r]): a new list object holding new dicts with the same items.
deepcopy(h, r) == [ heap |-> Alloc(h, h[r]), ref |-> NewRef(h) ]
\* Objects nothing refers to any more are freed.
Collect(h, roots) == [ r \in (DOMAIN h) \cap roots |-> h[r] ]

\* ------------------------------------------------------------ exceptions
Ok(v) == << "ok", v >>
Raise(e) == << "raise", e >>
IsOk(x) == x[1] = "ok"
Payload(x) == x[2]

\* --------------------------------------------------- the solver's methods
PerCent == 100

\* consommation_equipements: sum of power_max over the dicts whose state is true.
RECURSIVE consommation_equipements(_)
consommation_equipements(solution) ==
    IF solution = <<>> THEN 0
    ELSE (IF Head(solution).state THEN Head(solution).power_max ELSE 0)
         + consommation_equipements(Tail(solution))

\* new_consommation_net without the baseline: the power of the solution is
\* added to the net consumption as it is.
new_consommation_net_sans_base(s, solution) ==
    Val(s._consommation_net) + consommation_equipements(solution)

\* new_consommation_net of calculer_objectif.
new_consommation_net(s, solution) ==
    LET puissance_totale_eqt == consommation_equipements(solution)
        diff_puissance_totale_eqt ==
            puissance_totale_eqt - Val(s._puissance_totale_eqt_initiale)
    IN  Val(s._consommation_net) + diff_puissance_totale_eqt

\* new_rejets without the sign change: the negative net consumption itself.
new_rejets_signe(net) == IF net >= 0 THEN 0 ELSE net

new_rejets(net) == IF net >= 0 THEN 0 ELSE -net

\* new_import without its test: the magnitude of the net consumption.
new_import_magnitude(net) == Abs(net)

new_import(net) == IF net < 0 THEN 0 ELSE net

\* cout_revente * (1.0 - taxe_revente / 100.0)
cout_revente_impose(s) ==
    RatMul(IntRat(s._cout_revente),
           RatSub(IntRat(1), RatDiv(s._taxe_revente, IntRat(PerCent))))

\* calculer_objectif(solution): Ok(objective) or the exception raised.
calculer_objectif(s, solution) ==
    LET net == new_consommation_net(s, solution)
        impose == cout_revente_impose(s)
        somme == RatAdd(IntRat(s._cout_achat), impose)
    IN  IF RatIsZero(somme) THEN Raise("ZeroDivisionError")
        ELSE LET coef_import == RatDiv(IntRat(s._cout_achat), somme)
                 coef_rejets == RatDiv(impose, somme)
             IN  Ok(RatAdd(RatMul(coef_import, IntRat(new_import(net))),
                           RatMul(coef_rejets, IntRat(new_rejets(net)))))

\* usable without its filter: every dict is eligible.
usable_sans_filtre(solution) == [ i \in 1..Len(solution) |-> i ]

\* The positions of the usable dicts, in list order (usable holds the dicts
\* themselves; a dict of the list is named here by its position).
usable(solution) ==
    SelectSeq([ i \in 1..Len(solution) |-> i ], LAMBDA i : solution[i].is_usable)

\* eqt["state"] = False: the chosen device is switched off, not toggled.
Flip_eteint(h, r, i) == [ h EXCEPT ![r][i].state = FALSE ]

\* eqt["state"] = not eqt["state"] on the dict at position i of object r.
Flip(h, r, i) == [ h EXCEPT ![r][i].state = ~@ ]

\* The choice among usable depends on the identity (address) of the copy, as
\* when usable is iterated in an order derived from id().
permuter_equipement_par_identite(h, solution, k) ==
    LET u == usable(h[solution])
        r == NewRef(h)
        h1 == Alloc(h, h[solution])
    IN  IF u = <<>> THEN Raise("IndexError")
        ELSE Ok([ heap |-> Flip(h1, r, u[((k + r) % Len(u)) + 1]), ref |-> r ])

\* permuter_equipement(solution) with random.choice(usable) = usable[k]:
\* Ok([heap, ref]) with ref the neighbour, or the exception raised.
permuter_equipement(h, solution, k) ==
    LET c == deepcopy(h, solution)
        u == usable(c.heap[c.ref])
    IN  IF u = <<>> THEN Raise("IndexError")
        ELSE Ok([ heap |-> Flip(c.heap, c.ref, u[k]), ref |-> c.ref ])

\* generer_solution_initiale that records the baseline power only when the
\* instance holds none yet.
generer_solution_initiale_une_fois(s, h, solution) ==
    LET c == deepcopy(h, solution)
    IN  [ self |-> IF IsNone(s._puissance_totale_eqt_initiale)
                   THEN [ s EXCEPT !._puissance_totale_eqt_initiale =
                                       Some(consommation_equipements(h[solution])) ]
                   ELSE s,
          heap |-> c.heap,
          ref  |-> c.ref ]

\* generer_solution_initiale(solution): records the baseline power on the
\* instance and returns a deep copy of the solution.
generer_solution_initiale(s, h, solution) ==
    LET c == deepcopy(h, solution)
    IN  [ self |-> [ s EXCEPT !._puissance_totale_eqt_initiale =
                                  Some(consommation_equipements(h[solution])) ],
          heap |-> c.heap,
          ref  |-> c.ref ]

\* The dicts recuit_simule builds from the devices (lines 101-110).
Equipements(devices) ==
    [ i \in 1..Len(devices) |->
        [ power_max |-> devices[i].power_max,
          name      |-> devices[i].name,
          state     |-> devices[i].is_active,
          is_usable |-> devices[i].is_usable ] ]

\* The precondition check with len(devices) < 0 for len(devices) <= 0.
Abandon_liste_vide(a) ==
    \/ Len(a.devices) < 0
    \/ IsNone(a.power_consumption)
    \/ IsNone(a.solar_power_production)
    \/ IsNone(a.sell_cost)
    \/ IsNone(a.buy_cost)
    \/ IsNone(a.sell_tax_percent)

\* The precondition check of recuit_simule: TRUE when the call is abandoned.
Abandon(a) ==
    \/ Len(a.devices) <= 0
    \/ IsNone(a.power_consumption)
    \/ IsNone(a.solar_power_production)
    \/ IsNone(a.sell_cost)
    \/ IsNone(a.buy_cost)
    \/ IsNone(a.sell_tax_percent)

\* ------------------------------------------------------ the annealing loop
\* random.random() as ln(seuil); ZeroSeuil is seuil = 0.0.
ZeroSeuil == << >>
LnSeuils == { ZeroSeuil, IntRat(-1) }

\* objectif_voisin < objectif_actuel (line 134)
Ameliore(obj_voisin, obj_actuel) == RatLt(obj_voisin, obj_actuel)

\* The best is replaced by every candidate that beats the current solution.
Meilleur_toujours(obj_voisin, obj_meilleure) == TRUE

\* objectif_voisin < self.calculer_objectif(meilleure_solution) (line 138)
Meilleur(obj_voisin, obj_meilleure) == RatLt(obj_voisin, obj_meilleure)

\* seuil <= probabilite for seuil < probabilite.
Accepte_seuil_large(obj_actuel, obj_voisin, temp, lnseuil) ==
    IF RatIsZero(temp) THEN Raise("ZeroDivisionError")
    ELSE LET x == RatDiv(RatSub(obj_actuel, obj_voisin), temp)
         IN  Ok(lnseuil = ZeroSeuil \/ RatLe(lnseuil, x))

\* seuil < probabilite, probabilite = exp((objectif_actuel - objectif_voisin)
\* / temperature) (lines 145-148): Ok(accepted) or the exception raised.
Accepte(obj_actuel, obj_voisin, temp, lnseuil) ==
    IF RatIsZero(temp) THEN Raise("ZeroDivisionError")
    ELSE LET x == RatDiv(RatSub(obj_actuel, obj_voisin), temp)
         IN  Ok(lnseuil = ZeroSeuil \/ RatLt(lnseuil, x))

\* The floor test with <= for <.
Refroidi_large(temp, s) == RatLe(temp, IntRat(s._temperature_minimale))

\* temperature < self._temperature_minimale (line 164)
Refroidi(temp, s) == RatLt(temp, IntRat(s._temperature_minimale))

\* ----------------------------------------------------------------- frames
IdleFrame ==
    [ pc                 |-> "idle",
      args               |-> None,
      solution_actuelle  |-> NoRef,
      meilleure_solution |-> NoRef,
      meilleure_objectif |-> None,
      temperature        |-> None,
      iterations         |-> 0,
      voisin             |-> NoRef,
      objectif_actuel    |-> None,
      objectif_voisin    |-> None,
      retour             |-> None,
      erreur             |-> None,
      visites            |-> {},    \* history: the objectives evaluated so far
      precedent          |-> None ] \* history: the arguments of the call before

\* The frame of a call that an exception has left.  The references it held
\* are dropped; args, temperature, iterations, visites and precedent stay as
\* the record of the call.
Raised(f, e) ==
    [ IdleFrame EXCEPT !.pc = "raised", !.args = f.args, !.erreur = Some(e),
                       !.temperature = f.temperature,
                       !.iterations = f.iterations, !.visites = f.visites,
                       !.precedent = f.precedent ]

\* The frame of a call that has returned (sol, obj, power).
Returned(f, sol, obj, power) ==
    [ IdleFrame EXCEPT !.pc = "returned", !.args = f.args,
                       !.retour = Some([ solution |-> sol, objectif |-> obj,
                                         puissance |-> power ]),
                       !.temperature = f.temperature,
                       !.iterations = f.iterations, !.visites = f.visites,
                       !.precedent = f.precedent ]

\* What keeps list objects alive: the instance, the locals, the returned value.
Roots(s, fr) ==
    { s._equipements }
    \cup UNION { { fr[c].solution_actuelle, fr[c].meilleure_solution, fr[c].voisin }
                 : c \in Calls }
    \cup { Val(fr[c].retour).solution : c \in { d \in Calls : fr[d].retour # None } }

\* Lines 73-118 of recuit_simule with arguments a: the new instance
\* attributes, heap and frame.
Entree(s, h, a) ==
    LET f0 == [ IdleFrame EXCEPT !.args = Some(a) ]
    IN  IF Abandon(a)
        THEN [ self  |-> s,
               heap  |-> Alloc(h, << >>),
               frame |-> Returned(f0, NewRef(h), IntRat(-1), -1) ]
        ELSE
        LET s1 == [ s EXCEPT !._cout_achat = Val(a.buy_cost),
                             !._cout_revente = Val(a.sell_cost),
                             !._taxe_revente = IntRat(Val(a.sell_tax_percent)),
                             !._consommation_net = a.power_consumption,
                             !._production_solaire = a.solar_power_production,
                             !._equipements = NewRef(h) ]
            h1 == Alloc(h, Equipements(a.devices))
            g  == generer_solution_initiale(s1, h1, s1._equipements)
            o  == calculer_objectif(g.self, g.heap[g.ref])
        IN  [ self  |-> g.self,
              heap  |-> g.heap,
              frame |-> IF IsOk(o)
                        THEN [ f0 EXCEPT !.pc = "for",
                                         !.solution_actuelle = g.ref,
                                         !.meilleure_solution = g.ref,
                                         !.meilleure_objectif = Payload(o),
                                         !.temperature = IntRat(g.self._temperature_initiale),
                                         !.visites = { Payload(o) } ]
                        ELSE Raised(f0, Payload(o)) ]

\* The acceptance step in which a candidate accepted by the probabilistic
\* rule becomes the best solution as well.
Acceptation_meilleur_aussi(s, h, f, v, oa, ov, lnseuil) ==
    LET f1 == [ f EXCEPT !.voisin = v, !.objectif_actuel = oa, !.objectif_voisin = ov,
                         !.visites = @ \cup { oa, ov } ]
    IN  IF Ameliore(ov, oa)
        THEN LET ob == calculer_objectif(s, h[f.meilleure_solution])
             IN  IF ~IsOk(ob) THEN Raise(Payload(ob))
                 ELSE IF Meilleur(ov, Payload(ob))
                 THEN Ok([ f1 EXCEPT !.solution_actuelle = v,
                                     !.meilleure_solution = v,
                                     !.meilleure_objectif = ov ])
                 ELSE Ok([ f1 EXCEPT !.solution_actuelle = v ])
        ELSE LET acc == Accepte(oa, ov, f.temperature, lnseuil)
             IN  IF ~IsOk(acc) THEN Raise(Payload(acc))
                 ELSE IF Payload(acc)
                 THEN Ok([ f1 EXCEPT !.solution_actuelle = v,
                                     !.meilleure_solution = v,
                                     !.meilleure_objectif = ov ])
                 ELSE Ok(f1)

\* Lines 134-158: the frame after the acceptance step, or the exception.
Acceptation(s, h, f, v, oa, ov, lnseuil) ==
    LET f1 == [ f EXCEPT !.voisin = v, !.objectif_actuel = oa, !.objectif_voisin = ov,
                         !.visites = @ \cup { oa, ov } ]
    IN  IF Ameliore(ov, oa)
        THEN LET ob == calculer_objectif(s, h[f.meilleure_solution])
             IN  IF ~IsOk(ob) THEN Raise(Payload(ob))
                 ELSE IF Meilleur(ov, Payload(ob))
                 THEN Ok([ f1 EXCEPT !.solution_actuelle = v,
                                     !.meilleure_solution = v,
                                     !.meilleure_objectif = ov ])
                 ELSE Ok([ f1 EXCEPT !.solution_actuelle = v ])
        ELSE LET acc == Accepte(oa, ov, f.temperature, lnseuil)
             IN  IF ~IsOk(acc) THEN Raise(Payload(acc))
                 ELSE IF Payload(acc)
                 THEN Ok([ f1 EXCEPT !.solution_actuelle = v ])
                 ELSE Ok(f1)

\* Lines 160-165: cooling and the test that leaves the loop.
Refroidissement(s, f) ==
    LET t == RatMul(f.temperature, s._facteur_refroidissement)
    IN  [ f EXCEPT !.temperature = t,
                   !.iterations = @ + 1,
                   !.pc = IF Refroidi(t, s) THEN "break" ELSE "for" ]

\* One pass of the loop body (lines 120-165) with random.choice(usable) =
\* usable[k] and random.random() = exp(lnseuil): the new heap and frame.
Corps(s, h, f, k, lnseuil) ==
    LET oa == calculer_objectif(s, h[f.solution_actuelle])
    IN  IF ~IsOk(oa) THEN [ heap |-> h, frame |-> Raised(f, Payload(oa)) ]
        ELSE
        LET p == permuter_equipement(h, f.solution_actuelle, k)
        IN  IF ~IsOk(p) THEN [ heap |-> h, frame |-> Raised(f, Payload(p)) ]
            ELSE
            LET h1 == Payload(p).heap
                v  == Payload(p).ref
                ov == calculer_objectif(s, h1[v])
            IN  IF ~IsOk(ov) THEN [ heap |-> h1, frame |-> Raised(f, Payload(ov)) ]
                ELSE
                LET r == Acceptation(s, h1, f, v, Payload(oa), Payload(ov), lnseuil)
                IN  IF ~IsOk(r) THEN [ heap |-> h1, frame |-> Raised(f, Payload(r)) ]
                    ELSE [ heap |-> h1, frame |-> Refroidissement(s, Payload(r)) ]

\* ---------------------------------------------------------------- actions
\* A caller invokes recuit_simule(a) in call frame c.
Appel(c, A) ==
    /\ frame[c].pc = "idle"
    /\ \E a \in A :
         \E e \in { Entree(self, heap, a) } :
             /\ self' = e.self
             /\ frame' = [ frame EXCEPT ![c] = e.frame ]
             /\ heap' = Collect(e.heap, Roots(self', frame'))

\* The for loop runs its body once more.
Iteration(c) ==
    /\ frame[c].pc = "for"
    /\ frame[c].iterations < self._nombre_iterations
    /\ LET n == Len(usable(heap[frame[c].solution_actuelle]))
       IN  \E k \in 1..(IF n = 0 THEN 1 ELSE n), lnseuil \in LnSeuils :
             \E r \in { Corps(self, heap, frame[c], k, lnseuil) } :
                 /\ frame' = [ frame EXCEPT ![c] = r.frame ]
                 /\ heap' = Collect(r.heap, Roots(self, frame'))
                 /\ UNCHANGED self

\* The return statement with the power of solution_actuelle for that of
\* meilleure_solution.
Retour_actuelle(c) ==
    /\ \/ frame[c].pc = "break"
       \/ frame[c].pc = "for" /\ frame[c].iterations >= self._nombre_iterations
    /\ LET f == frame[c]
       IN  frame' = [ frame EXCEPT ![c] =
                        Returned(f, f.meilleure_solution, f.meilleure_objectif,
                                 consommation_equipements(heap[f.solution_actuelle])) ]
    /\ heap' = Collect(heap, Roots(self, frame'))
    /\ UNCHANGED self

\* The loop is over (range exhausted, or break): lines 167-171.
Retour(c) ==
    /\ \/ frame[c].pc = "break"
       \/ frame[c].pc = "for" /\ frame[c].iterations >= self._nombre_iterations
    /\ LET f == frame[c]
       IN  frame' = [ frame EXCEPT ![c] =
                        Returned(f, f.meilleure_solution, f.meilleure_objectif,
                                 consommation_equipements(heap[f.meilleure_solution])) ]
    /\ heap' = Collect(heap, Roots(self, frame'))
    /\ UNCHANGED self

\* __init__(initial_temp, min_temp, cooling_factor, max_iteration_number) on
\* the class defaults (lines 18-28); attributes without a default are unset.
Init ==
    /\ self \in [ _temperature_initiale : InitialTemps,
                  _temperature_minimale : MinTemps,
                  _facteur_refroidissement : CoolingFactors,
                  _nombre_iterations : MaxIterationNumbers,
                  _equipements : { NoRef },
                  _puissance_totale_eqt_initiale : { None },
                  _cout_achat : { 15 },
                  _cout_revente : { 10 },
                  _taxe_revente : { Rat(13, 100) },
                  _consommation_net : { None },
                  _production_solaire : { None } ]
    /\ heap = << >>
    /\ frame = [ c \in Calls |-> IdleFrame ]

\* One call of recuit_simule on a freshly constructed solver.
Next ==
    \/ Appel(1, Args)
    \/ Iteration(1)
    \/ Retour(1)

Spec == Init /\ [][Next]_vars

\* Two calls of recuit_simule on the one solver instance whose steps
\* interleave (the caller runs them in two threads).  Interleaving is at the
\* grain of the actions: the entry, one pass of the loop body, the return.
ConcArgs ==
    { a \in Args :
        /\ Len(a.devices) = 1 /\ a.devices[1].is_usable
        /\ a.power_consumption # None /\ a.sell_cost # None /\ a.buy_cost # None
        /\ a.solar_power_production = Some(0)
        /\ a.sell_tax_percent = Some(0) }

NextConc ==
    \E c \in Calls :
      \/ Appel(c, ConcArgs)
      \/ Iteration(c)
      \/ Retour(c)

SpecConc == Init /\ [][NextConc]_vars

\* Two runs of recuit_simule with the same arguments, on the one instance,
\* advancing together and given the same random draws at every iteration.
AppelJumeaux ==
    /\ \A c \in Calls : frame[c].pc = "idle"
    /\ \E a \in Args :
         \E e1 \in { Entree(self, heap, a) } :
         \E e2 \in { Entree(e1.self, e1.heap, a) } :
             /\ self' = e2.self
             /\ frame' = [ c \in Calls |-> IF c = 1 THEN e1.frame ELSE e2.frame ]
             /\ heap' = Collect(e2.heap, Roots(self', frame'))

IterationJumelle ==
    /\ \A c \in Calls : frame[c].pc = "for" /\ frame[c].iterations < self._nombre_iterations
    /\ LET n == Len(usable(heap[frame[1].solution_actuelle]))
       IN  \E k \in 1..(IF n = 0 THEN 1 ELSE n), lnseuil \in LnSeuils :
             \E r1 \in { Corps(self, heap, frame[1], k, lnseuil) } :
             \E r2 \in { Corps(self, r1.heap, frame[2], k, lnseuil) } :
                 /\ frame' = [ c \in Calls |-> IF c = 1 THEN r1.frame ELSE r2.frame ]
                 /\ heap' = Collect(r2.heap, Roots(self, frame'))
                 /\ UNCHANGED self

RetourJumeau ==
    /\ \A c \in Calls :
         \/ frame[c].pc = "break"
         \/ frame[c].pc = "for" /\ frame[c].iterations >= self._nombre_iterations
    /\ frame' = [ c \in Calls |->
                    Returned(frame[c], frame[c].meilleure_solution,
                             frame[c].meilleure_objectif,
                             consommation_equipements(heap[frame[c].meilleure_solution])) ]
    /\ heap' = Collect(heap, Roots(self, frame'))
    /\ UNCHANGED self

NextJumeaux ==
    \/ AppelJumeaux
    \/ IterationJumelle
    \/ RetourJumeau

SpecJumeaux == Init /\ [][NextJumeaux]_vars

\* Calls of recuit_simule made one after the other on the one solver
\* instance: the caller takes the outcome of a call (the returned triple, or
\* the exception) and calls again.  Some of the calls return the sentinel.
SeqArgs ==
    { [ devices |-> d,
        power_consumption |-> Some(p[1]),
        solar_power_production |-> Some(0),
        sell_cost |-> Some(1),
        buy_cost |-> Some(p[2]),
        sell_tax_percent |-> Some(0) ] :
        d \in { << >> } \cup { << x >> : x \in { y \in DevicesAt(1) : y.is_usable } },
        p \in { << -2, 0 >>, << 1, 1 >> } }

\* The call in frame c is over; the caller invokes recuit_simule(a) again.
Rappel(c, A) ==
    /\ frame[c].pc \in { "returned", "raised" }
    /\ \E a \in A :
         \E e \in { Entree(self, heap, a) } :
             /\ self' = e.self
             /\ frame' = [ frame EXCEPT ![c] =
                              [ e.frame EXCEPT !.precedent = frame[c].args ] ]
             /\ heap' = Collect(e.heap, Roots(self', frame'))

NextSeq ==
    \/ Appel(1, SeqArgs)
    \/ Iteration(1)
    \/ Retour(1)
    \/ Rappel(1, SeqArgs)

SpecSeq == Init /\ [][NextSeq]_vars

\* ================================================================== claims
\* Call c has been made / with arguments a.
Called(c) == frame[c].args # None
ArgsOf(c) == Val(frame[c].args)
\* Some argument is missing: the device list is empty or a scalar is None.
Missing(a) ==
    \/ a.devices = << >>
    \/ None \in { a.power_consumption, a.solar_power_production, a.sell_cost,
                  a.buy_cost, a.sell_tax_percent }
\* Call c is in its loop (before an iteration, or just after the break).
InLoop(c) == frame[c].pc \in { "for", "break" }
HasUsable(a) == \E i \in 1..Len(a.devices) : a.devices[i].is_usable
HasReturned(c) == frame[c].pc = "returned"

\* The non-usable devices of call c have, in the list object r, the state
\* is_active of the input device.
NonUsableAsInput(c, r) ==
    r # NoRef =>
      /\ Len(heap[r]) = Len(ArgsOf(c).devices)
      /\ \A i \in 1..Len(heap[r]) :
           ~ArgsOf(c).devices[i].is_usable
             => heap[r][i].state = ArgsOf(c).devices[i].is_active

\* C1: in a call with at least one usable device, every device that is not
\* usable has the state of the input device (is_active) in the current
\* solution, the candidate, the best solution and the returned solution, at
\* every point of the run.
C1_NonUsableFixed ==
    \A c \in Calls :
      (Called(c) /\ ~Missing(ArgsOf(c)) /\ HasUsable(ArgsOf(c))) =>
        /\ NonUsableAsInput(c, frame[c].solution_actuelle)
        /\ NonUsableAsInput(c, frame[c].voisin)
        /\ NonUsableAsInput(c, frame[c].meilleure_solution)
        /\ HasReturned(c) => NonUsableAsInput(c, Val(frame[c].retour).solution)

\* A call over a usable and a non-usable device has returned, after at least
\* one iteration, a solution in which the usable device was flipped.
C1_Witness ==
    \E c \in Calls :
      /\ HasReturned(c) /\ ~Missing(ArgsOf(c)) /\ frame[c].iterations >= 1
      /\ \E i, j \in 1..Len(ArgsOf(c).devices) :
           /\ ~ArgsOf(c).devices[i].is_usable
           /\ ArgsOf(c).devices[j].is_usable
           /\ heap[Val(frame[c].retour).solution][j].state # ArgsOf(c).devices[j].is_active

\* The objective of list object r under the instance's present context.
ObjectifDe(r) == Payload(calculer_objectif(self, heap[r]))

\* C2 (state part): the best objective is <= the objective of every solution
\* visited so far (initial, current, candidates accepted or rejected), the
\* best solution's objective is <= the current solution's, and the returned
\* objective is <= every objective visited during the run.
C2_BestIsMinimum ==
    \A c \in Calls :
      /\ InLoop(c) =>
           /\ \A o \in frame[c].visites : RatLe(frame[c].meilleure_objectif, o)
           /\ RatLe(ObjectifDe(frame[c].meilleure_solution),
                    ObjectifDe(frame[c].solution_actuelle))
      /\ (HasReturned(c) /\ ~Missing(ArgsOf(c))) =>
           \A o \in frame[c].visites : RatLe(Val(frame[c].retour).objectif, o)

\* C2 (step part): from one iteration to the next the best objective never
\* increases.
C2_BestNeverIncreases ==
    \A c \in Calls :
      (InLoop(c) /\ frame'[c].pc \in { "for", "break" }) =>
        RatLe(frame'[c].meilleure_objectif, frame[c].meilleure_objectif)

\* C2: the best objective is a running minimum of the visited objectives.
C2_RunningMinimum == []C2_BestIsMinimum /\ [][C2_BestNeverIncreases]_vars

\* After two iterations the best solution is no longer the initial one and
\* the current solution is strictly worse than the best: the best was
\* improved, then a worse candidate was accepted.
C2_Witness ==
    \E c \in Calls :
      /\ InLoop(c) /\ frame[c].iterations >= 2
      /\ RatLt(frame[c].meilleure_objectif, ObjectifDe(frame[c].solution_actuelle))
      /\ heap[frame[c].meilleure_solution] # Equipements(ArgsOf(c).devices)

\* temperature < minimum_temperature for call c.
BelowFloor(c) == RatLt(frame[c].temperature, IntRat(self._temperature_minimale))

\* C3: the loop performs at most max_iterations iterations; after an
\* iteration that leaves temperature < minimum_temperature no further
\* iteration is started (the loop is left by break, with the temperature
\* below the floor), and a loop left before its budget is spent was left for
\* that reason.
C3_LoopBound ==
    \A c \in Calls :
      (Called(c) /\ ~Missing(ArgsOf(c))) =>
        /\ frame[c].iterations <= self._nombre_iterations
        /\ (frame[c].pc = "for" /\ frame[c].iterations >= 1) => ~BelowFloor(c)
        /\ frame[c].pc = "break" => (frame[c].iterations >= 1 /\ BelowFloor(c))
        /\ (HasReturned(c) /\ frame[c].iterations < self._nombre_iterations)
             => (frame[c].iterations >= 1 /\ BelowFloor(c))

\* A solver whose initial temperature is above the floor has returned after
\* at least one iteration with iterations of its budget still left.
C3_Witness ==
    \E c \in Calls :
      /\ HasReturned(c) /\ ~Missing(ArgsOf(c))
      /\ frame[c].iterations >= 1
      /\ frame[c].iterations < self._nombre_iterations
      /\ self._temperature_initiale > self._temperature_minimale

\* The sentinel ([], -1, -1).
IsSentinel(r) ==
    /\ heap[r.solution] = << >>
    /\ r.objectif = IntRat(-1)
    /\ r.puissance = -1

\* C4: a call with an empty device list or with a scalar argument None has
\* returned the sentinel ([], -1, -1) and has run no iteration and evaluated
\* no objective.
C4_Sentinel ==
    \A c \in Calls :
      (Called(c) /\ Missing(ArgsOf(c))) =>
        /\ HasReturned(c)
        /\ IsSentinel(Val(frame[c].retour))
        /\ frame[c].iterations = 0
        /\ frame[c].visites = {}

\* A call with devices and a single None scalar (the tax) returned the
\* sentinel on a solver that would have iterated.
C4_Witness ==
    \E c \in Calls :
      /\ HasReturned(c)
      /\ ArgsOf(c).devices # << >>
      /\ ArgsOf(c).sell_tax_percent = None
      /\ None \notin { ArgsOf(c).power_consumption, ArgsOf(c).solar_power_production,
                       ArgsOf(c).sell_cost, ArgsOf(c).buy_cost }
      /\ self._nombre_iterations >= 1
      /\ IsSentinel(Val(frame[c].retour))

\* The sum of power_max over the dicts of sol whose state is true.
RECURSIVE SumPower(_, _)
SumPower(sol, I) ==
    IF I = {} THEN 0
    ELSE LET i == CHOOSE j \in I : TRUE
         IN  sol[i].power_max + SumPower(sol, I \ { i })
PowerOn(sol) == SumPower(sol, { i \in 1..Len(sol) : sol[i].state })

\* The instance holds the context of call c: its net consumption, costs and
\* tax, and the total power of its own initial solution.
OwnContext(c) ==
    /\ self._consommation_net = ArgsOf(c).power_consumption
    /\ self._cout_achat = Val(ArgsOf(c).buy_cost)
    /\ self._cout_revente = Val(ArgsOf(c).sell_cost)
    /\ self._taxe_revente = IntRat(Val(ArgsOf(c).sell_tax_percent))
    /\ self._puissance_totale_eqt_initiale = Some(PowerOn(Equipements(ArgsOf(c).devices)))

\* C5: when two calls on the same instance interleave, every iteration of
\* each call evaluates the objective with that call's own net consumption,
\* costs, tax and baseline power.
C5_OwnContext ==
    \A c \in Calls :
      (frame[c].pc = "for" /\ frame[c].iterations < self._nombre_iterations)
        => OwnContext(c)

\* buy_cost + sell_cost * (1 - sell_tax_percent / 100) # 0 for arguments a.
TariffNonZero(a) ==
    100 * Val(a.buy_cost) + Val(a.sell_cost) * (100 - Val(a.sell_tax_percent)) # 0

\* C6: a call with a non-empty device list of which none is usable, on a
\* solver with an iteration budget of at least one, never returns, and the
\* failure that ends it in neighbour generation is the named error
\* NoUsableDevice.  (With a budget of 0 no neighbour is ever generated and
\* the call returns its initial solution.)
C6_NoUsableDevice ==
    \A c \in Calls :
      (/\ Called(c) /\ ~Missing(ArgsOf(c)) /\ ~HasUsable(ArgsOf(c))
       /\ self._nombre_iterations >= 1) =>
        /\ ~HasReturned(c)
        /\ (frame[c].pc = "raised" /\ TariffNonZero(ArgsOf(c)))
             => frame[c].erreur = Some("NoUsableDevice")

\* C7: with buy_cost + sell_cost * (1 - sell_tax_percent/100) = 0 the call
\* fails with the named error InvalidTariff and returns no objective.
C7_InvalidTariff ==
    \A c \in Calls :
      (Called(c) /\ ~Missing(ArgsOf(c)) /\ ~TariffNonZero(ArgsOf(c))) =>
        /\ frame[c].pc = "raised"
        /\ frame[c].erreur = Some("InvalidTariff")

\* C8: in the loop meilleure_objectif is the objective of meilleure_solution;
\* on a non-sentinel return the second value is the objective of the
\* returned solution and the third is the sum of power_max over its devices
\* whose state is true.
C8_TripleConsistent ==
    \A c \in Calls :
      /\ InLoop(c) =>
           frame[c].meilleure_objectif = ObjectifDe(frame[c].meilleure_solution)
      /\ (HasReturned(c) /\ ~Missing(ArgsOf(c))) =>
           LET r == Val(frame[c].retour)
           IN  /\ r.objectif = ObjectifDe(r.solution)
               /\ r.puissance = PowerOn(heap[r.solution])

\* A call returned, after two iterations, a solution that is not the input,
\* with some device on, having visited a strictly worse solution.
C8_Witness ==
    \E c \in Calls :
      /\ HasReturned(c) /\ ~Missing(ArgsOf(c)) /\ frame[c].iterations >= 2
      /\ LET r == Val(frame[c].retour)
         IN  /\ heap[r.solution] # Equipements(ArgsOf(c).devices)
             /\ r.puissance > 0
             /\ \E o \in frame[c].visites : RatLt(r.objectif, o)

\* C9: no step changes the content of a list object that exists before and
\* after it: the list handed to generer_solution_initiale, the solution
\* handed to permuter_equipement, and every solution stored as current or
\* best keep their device states; a flip lands in the new copy only.
C9_Step ==
    \A r \in DOMAIN heap : r \in DOMAIN heap' => heap'[r] = heap[r]

C9_ValueTypes == [][C9_Step]_vars

\* After an iteration whose candidate was rejected, current and best are the
\* same object, still equal to the input, and the candidate is another
\* object that differs from it.
C9_Witness ==
    \E c \in Calls :
      /\ InLoop(c) /\ frame[c].iterations >= 1
      /\ frame[c].solution_actuelle = frame[c].meilleure_solution
      /\ frame[c].voisin # frame[c].solution_actuelle
      /\ heap[frame[c].voisin] # heap[frame[c].solution_actuelle]
      /\ heap[frame[c].solution_actuelle] = Equipements(ArgsOf(c).devices)
      /\ heap[self._equipements] = Equipements(ArgsOf(c).devices)

\* The list object r of one run and r2 of the other hold the same devices.
SameList(r, r2) ==
    IF r = NoRef \/ r2 = NoRef THEN r = r2 ELSE heap[r] = heap[r2]

Solutions(c) ==
    { frame[c].solution_actuelle, frame[c].meilleure_solution, frame[c].voisin }
      \ { NoRef }

\* The new net consumption of list object r in call c: the call's net
\* consumption plus the power of r minus the power of the call's input.
NetOf(c, r) ==
    Val(ArgsOf(c).power_consumption)
      + (PowerOn(heap[r]) - PowerOn(Equipements(ArgsOf(c).devices)))

\* C11: in every objective evaluation of a call, new_rejets and new_import
\* are both >= 0, at most one of them is non-zero, and new_import -
\* new_rejets is the new net consumption (the call's net consumption plus the
\* power the solution adds to the initial one).
C11_ImportExportExclusive ==
    \A c \in Calls :
      InLoop(c) =>
        \A r \in Solutions(c) :
          LET net == new_consommation_net(self, heap[r])
          IN  /\ net = NetOf(c, r)
              /\ new_rejets(net) >= 0
              /\ new_import(net) >= 0
              /\ new_rejets(net) = 0 \/ new_import(net) = 0
              /\ new_import(net) - new_rejets(net) = net

\* A call holds a solution that exports to the grid and one that imports
\* from it, both evaluated in the same run.
C11_Witness ==
    \E c \in Calls :
      /\ InLoop(c) /\ frame[c].iterations >= 1
      /\ \E r1, r2 \in Solutions(c) :
           /\ new_rejets(NetOf(c, r1)) > 0
           /\ new_import(NetOf(c, r2)) > 0

\* Call c passed the precondition check, with at least one usable device and
\* a non-zero tariff denominator.
Solvable(c) ==
    /\ Called(c) /\ ~Missing(ArgsOf(c))
    /\ HasUsable(ArgsOf(c)) /\ TariffNonZero(ArgsOf(c))

\* C12: a call that passes the precondition check, with at least one usable
\* device and a non-zero tariff denominator, runs to its return for every
\* configuration and every sequence of draws: no step ends it with an
\* exception; until it has returned it is in its loop (Running) or has just
\* left it (Cooled or Exhausted), where its next step can be taken, and it
\* has run at most max_iterations iterations.
C12_RunsToReturn ==
    \A c \in Calls :
      Solvable(c) =>
        /\ frame[c].pc # "raised"
        /\ frame[c].pc \in { "for", "break", "returned" }
        /\ frame[c].iterations <= self._nombre_iterations

\* initial_temperature > minimum_temperature > 0, cooling_factor in (0,1)
\* and max_iterations > 0 for the solver s.
ValidConfig(s) ==
    /\ s._temperature_initiale > s._temperature_minimale
    /\ s._temperature_minimale > 0
    /\ RatLt(IntRat(0), s._facteur_refroidissement)
    /\ RatLt(s._facteur_refroidissement, IntRat(1))
    /\ s._nombre_iterations > 0

\* C13: construction validates the annealing parameters, so that a
\* constructed solver always has initial_temperature > minimum_temperature
\* > 0, cooling_factor in (0,1) and max_iterations > 0, and no call of
\* recuit_simule runs with other parameters.
C13_ValidatedConfig ==
    /\ ValidConfig(self)
    /\ \A c \in Calls : Called(c) => ValidConfig(self)

\* A solver freshly constructed with the configuration of s.
Construit(s) ==
    [ s EXCEPT !._equipements = NoRef,
               !._puissance_totale_eqt_initiale = None,
               !._cout_achat = 15,
               !._cout_revente = 10,
               !._taxe_revente = Rat(13, 100),
               !._consommation_net = None,
               !._production_solaire = None ]

\* The list object r as a value, and the frame f with the list objects it
\* refers to as values.
Liste(h, r) == IF r = NoRef THEN None ELSE Some(h[r])
Contenu(h, f) ==
    [ f EXCEPT !.solution_actuelle = Liste(h, @),
               !.meilleure_solution = Liste(h, @),
               !.voisin = Liste(h, @),
               !.retour = IF @ = None THEN None
                          ELSE Some([ Val(@) EXCEPT !.solution = Liste(h, @) ]) ]

\* What a call leaves on the instance s, the device list as a value.
Contexte(s, h) == [ s EXCEPT !._equipements = Liste(h, @) ]

\* C14: in a sequence of calls on one instance, sentinel-returning calls
\* included, every step of a call is the step a freshly constructed solver
\* with the same configuration takes on the same arguments and draws.  (1)
\* Wherever a call may start, for every argument tuple, the entry leaves the
\* same frame on the used instance as on a fresh one; when the call is not
\* abandoned it leaves the same attributes too.  (2) In the loop, for every
\* draw, the iteration gives the same frame on the used instance as on the
\* fresh solver in the same call.  (The return reads only the frame.)
C14_SelfContained ==
    /\ frame[1].pc \in { "idle", "returned", "raised" } =>
         \A a \in SeqArgs :
           \A e \in { Entree(self, heap, a) } :
           \A n \in { Entree(Construit(self), << >>, a) } :
               /\ Contenu(e.heap, e.frame) = Contenu(n.heap, n.frame)
               /\ ~Missing(a) => Contexte(e.self, e.heap) = Contexte(n.self, n.heap)
    /\ (frame[1].pc = "for" /\ frame[1].iterations < self._nombre_iterations) =>
         \A n \in { Entree(Construit(self), << >>, ArgsOf(1)).self } :
         \A k \in 1..Len(usable(heap[frame[1].solution_actuelle])), lnseuil \in LnSeuils :
           \A r \in { Corps(self, heap, frame[1], k, lnseuil) } :
           \A q \in { Corps(n, heap, frame[1], k, lnseuil) } :
               Contenu(r.heap, r.frame) = Contenu(q.heap, q.frame)

\* A call has returned a solution after at least one iteration, on an
\* instance whose previous call was solved with another baseline power,
\* another buy cost and another net consumption.
C14_Witness ==
    LET f == frame[1]
    IN  /\ HasReturned(1) /\ ~Missing(ArgsOf(1)) /\ f.iterations >= 1
        /\ f.precedent # None
        /\ LET p == Val(f.precedent)
           IN  /\ ~Missing(p)
               /\ PowerOn(Equipements(p.devices)) # PowerOn(Equipements(ArgsOf(1).devices))
               /\ p.buy_cost # ArgsOf(1).buy_cost
               /\ p.power_consumption # ArgsOf(1).power_consumption

\* s = sell_cost * (1 - sell_tax_percent/100) for arguments a.
SellAfterTax(a) == Rat(Val(a.sell_cost) * (100 - Val(a.sell_tax_percent)), 100)

\* import_weight * max(0, net) + export_weight * max(0, -net) under the
\* tariff of arguments a (non-zero denominator).
WeightedCost(a, net) ==
    LET buy == IntRat(Val(a.buy_cost))
        import_weight == RatDiv(buy, RatAdd(buy, SellAfterTax(a)))
        export_weight == RatDiv(SellAfterTax(a), RatAdd(buy, SellAfterTax(a)))
        max0(x) == IF x > 0 THEN x ELSE 0
    IN  RatAdd(RatMul(import_weight, IntRat(max0(net))),
               RatMul(export_weight, IntRat(max0(-net))))

\* C15: in a call with a non-zero tariff denominator the objective of every
\* solution is import_weight * max(0, new_net) + export_weight * max(0,
\* -new_net) with new_net = net_consumption + (total_power - baseline_power)
\* and the weights buy/(buy+s), s/(buy+s), s = sell * (1 - tax/100); the
\* baseline is the power of the call's initial solution in every evaluation;
\* the value is the same for every solar production; the initial solution's
\* objective is the weighted cost of net_consumption.
C15_ObjectiveFormula ==
    \A c \in Calls :
      InLoop(c) =>
        LET a == ArgsOf(c)
            f == frame[c]
        IN  /\ self._puissance_totale_eqt_initiale
                 = Some(PowerOn(Equipements(a.devices)))
            /\ \A r \in Solutions(c) :
                 /\ calculer_objectif(self, heap[r]) = Ok(WeightedCost(a, NetOf(c, r)))
                 /\ \A p \in SolarProductions \ { None } :
                      calculer_objectif([ self EXCEPT !._production_solaire = p ], heap[r])
                        = calculer_objectif(self, heap[r])
            /\ f.voisin # NoRef =>
                 f.objectif_voisin = WeightedCost(a, NetOf(c, f.voisin))
            /\ WeightedCost(a, Val(a.power_consumption)) \in f.visites
            /\ f.iterations = 0 =>
                 f.meilleure_objectif = WeightedCost(a, Val(a.power_consumption))

\* A call with a device on at entry (baseline > 0), both weights non-zero
\* and a solar production > 0 has evaluated a candidate that imports and
\* whose power differs from the baseline.
C15_Witness ==
    \E c \in Calls :
      /\ InLoop(c) /\ frame[c].voisin # NoRef
      /\ PowerOn(Equipements(ArgsOf(c).devices)) > 0
      /\ PowerOn(heap[frame[c].voisin]) # PowerOn(Equipements(ArgsOf(c).devices))
      /\ NetOf(c, frame[c].voisin) > 0
      /\ ArgsOf(c).buy_cost = Some(1) /\ ArgsOf(c).sell_tax_percent = Some(0)
      /\ ArgsOf(c).solar_power_production = Some(3)

\* The positions at which the lists v and w differ in state.
Flipped(v, w) == { i \in 1..Len(w) : v[i].state # w[i].state }

\* v is a neighbour of w: the same devices in the same order with the same
\* name, power_max and is_usable, and exactly one state differs, that of a
\* usable device.
IsNeighbour(v, w) ==
    /\ Len(v) = Len(w)
    /\ \A i \in 1..Len(w) :
         /\ DOMAIN v[i] = DOMAIN w[i]
         /\ v[i].name = w[i].name
         /\ v[i].power_max = w[i].power_max
         /\ v[i].is_usable = w[i].is_usable
    /\ Cardinality(Flipped(v, w)) = 1
    /\ \A i \in Flipped(v, w) : w[i].is_usable

\* C16 (the function): for the current solution of a call with a usable
\* device, permuter_equipement returns a neighbour for every draw, and every
\* usable device is the one flipped for some draw.
C16_NeighbourOfCurrent ==
    \A c \in Calls :
      (frame[c].pc = "for" /\ HasUsable(ArgsOf(c))) =>
        LET w == heap[frame[c].solution_actuelle]
            n == Cardinality({ i \in 1..Len(w) : w[i].is_usable })
            voisin(k) == LET p == Payload(permuter_equipement(heap, frame[c].solution_actuelle, k))
                         IN  p.heap[p.ref]
        IN  /\ \A k \in 1..n : IsNeighbour(voisin(k), w)
            /\ \A i \in 1..Len(w) :
                 w[i].is_usable => \E k \in 1..n : Flipped(voisin(k), w) = { i }

\* C16 (the step): the candidate an iteration has produced is a neighbour of
\* the solution that was current before the iteration.
C16_CandidateStep ==
    \A c \in Calls :
      (frame[c].pc = "for" /\ frame'[c].iterations = frame[c].iterations + 1) =>
        IsNeighbour(heap'[frame'[c].voisin], heap[frame[c].solution_actuelle])

\* C16: the neighbour has the same devices in the same order with the same
\* name, power_max and is_usable and differs from the input solution in the
\* state of exactly one device, which is usable; every usable device can be
\* the one flipped.
C16_Neighbour == []C16_NeighbourOfCurrent /\ [][C16_CandidateStep]_vars

\* After the first iteration of a call over two usable devices the candidate
\* differs from the input in the second device only.
C16_Witness ==
    \E c \in Calls :
      /\ InLoop(c) /\ frame[c].iterations = 1
      /\ Len(ArgsOf(c).devices) = 2
      /\ \A i \in 1..2 : ArgsOf(c).devices[i].is_usable
      /\ Flipped(heap[frame[c].voisin], Equipements(ArgsOf(c).devices)) = { 2 }

\* Call c completes an iteration in this step.
IterationDone(c) ==
    frame[c].pc = "for" /\ frame'[c].iterations = frame[c].iterations + 1

\* The best solution or the best objective of call c changes in this step.
BestChanges(c) ==
    \/ frame'[c].meilleure_solution # frame[c].meilleure_solution
    \/ heap'[frame'[c].meilleure_solution] # heap[frame[c].meilleure_solution]
    \/ frame'[c].meilleure_objectif # frame[c].meilleure_objectif

\* C17 (one step): in an iteration the best solution and the best objective
\* change only if the candidate's objective is strictly lower than the
\* current solution's and than the best solution's, and then the best is
\* that candidate with its objective; a candidate that does not improve on
\* the current solution and is accepted becomes current and leaves the best
\* solution and the best objective as they were.
C17_Step ==
    \A c \in Calls :
      IterationDone(c) =>
        LET oa == frame'[c].objectif_actuel
            ov == frame'[c].objectif_voisin
            ob == Payload(calculer_objectif(self, heap[frame[c].meilleure_solution]))
            lower(x, y) == Num(x) * Den(y) < Num(y) * Den(x)
        IN  /\ BestChanges(c) =>
                 /\ lower(ov, oa) /\ lower(ov, ob)
                 /\ frame'[c].meilleure_solution = frame'[c].voisin
                 /\ frame'[c].meilleure_objectif = ov
            /\ (~lower(ov, oa) /\ frame'[c].solution_actuelle = frame'[c].voisin) =>
                 /\ frame'[c].meilleure_solution = frame[c].meilleure_solution
                 /\ frame'[c].meilleure_objectif = frame[c].meilleure_objectif
                 /\ ~BestChanges(c)

\* C17: the frame condition of the best solution over every iteration.
C17_BestFrame == [][C17_Step]_vars

\* After two iterations the best is neither the input nor the current
\* solution, and the current solution is the last candidate, which was
\* strictly worse than the solution it replaced: the best changed in the
\* first iteration and was left alone by the acceptance in the second.
C17_Witness ==
    \E c \in Calls :
      /\ InLoop(c) /\ frame[c].iterations = 2
      /\ heap[frame[c].meilleure_solution] # Equipements(ArgsOf(c).devices)
      /\ frame[c].solution_actuelle = frame[c].voisin
      /\ frame[c].meilleure_solution # frame[c].solution_actuelle
      /\ RatLt(frame[c].objectif_actuel, frame[c].objectif_voisin)
      /\ frame[c].meilleure_objectif = frame[c].objectif_actuel

\* u < exp(x) for the draw u carried as lnseuil = ln(u).
BelowExp(lnseuil, x) ==
    lnseuil = ZeroSeuil \/ Num(lnseuil) * Den(x) < Num(x) * Den(lnseuil)

DocumentedRanges(a) ==
    /\ Val(a.buy_cost) > 0
    /\ Val(a.sell_cost) > 0
    /\ Val(a.sell_tax_percent) >= 0 /\ Val(a.sell_tax_percent) <= 100
    /\ \A i \in 1..Len(a.devices) : a.devices[i].power_max >= 0

\* C19: in a call that passes the precondition check with inputs in the
\* documented ranges every objective evaluated is >= 0; what the call
\* returns has an objective >= 0, a total power >= 0 and a non-empty
\* solution, so it is not the sentinel ([], -1, -1) in any component.
C19_NonNegative ==
    \A c \in Calls :
      (Called(c) /\ ~Missing(ArgsOf(c)) /\ DocumentedRanges(ArgsOf(c))) =>
        /\ \A o \in frame[c].visites : Num(o) >= 0
        /\ InLoop(c) =>
             \A r \in Solutions(c) : Num(Payload(calculer_objectif(self, heap[r]))) >= 0
        /\ HasReturned(c) =>
             LET r == Val(frame[c].retour)
             IN  /\ Num(r.objectif) >= 0 /\ r.objectif # IntRat(-1)
                 /\ r.puissance >= 0 /\ r.puissance # -1
                 /\ heap[r.solution] # << >>
                 /\ ~IsSentinel(r)

\* A call with inputs in the documented ranges and a tax below 100 has
\* returned, after at least one iteration, the objective 0 with a device on,
\* having evaluated an exporting solution of objective > 0.
C19_Witness ==
    \E c \in Calls :
      /\ HasReturned(c) /\ ~Missing(ArgsOf(c)) /\ DocumentedRanges(ArgsOf(c))
      /\ ArgsOf(c).sell_tax_percent = Some(0)
      /\ Val(ArgsOf(c).power_consumption) < 0
      /\ frame[c].iterations >= 1
      /\ Val(frame[c].retour).objectif = IntRat(0)
      /\ Val(frame[c].retour).puissance > 0
      /\ \E o \in frame[c].visites : Num(o) > 0

\* initial_temperature * cooling_factor^j for the solver s.
RECURSIVE TempAfter(_, _)
TempAfter(s, j) ==
    IF j = 0 THEN IntRat(s._temperature_initiale)
    ELSE RatMul(TempAfter(s, j - 1), s._facteur_refroidissement)

\* initial_temperature * cooling_factor^j < minimum_temperature
Crossed(s, j) ==
    Num(TempAfter(s, j)) < s._temperature_minimale * Den(TempAfter(s, j))

\* min(max_iterations, k) with k the least integer >= 1 such that
\* initial_temperature * cooling_factor^k < minimum_temperature.
ExpectedIterations(s) ==
    LET J == { j \in 1..s._nombre_iterations : Crossed(s, j) }
    IN  IF J = {} THEN s._nombre_iterations
        ELSE CHOOSE j \in J : \A i \in J : j <= i

\* What holds of the iteration count of every call that passes the
\* precondition check: it is in the loop only before min(max_iterations, k)
\* iterations are done, it leaves by break exactly at iteration k, and when
\* it returns it has run exactly min(max_iterations, k) iterations; with
\* max_iterations = 0 it returns the initial solution unchanged.
CountOnReturn ==
    \A c \in Calls :
      (Called(c) /\ ~Missing(ArgsOf(c))) =>
        LET f == frame[c]
        IN  /\ f.iterations <= ExpectedIterations(self)
            /\ InLoop(c) => f.temperature = TempAfter(self, f.iterations)
            /\ f.pc = "for" =>
                 \A j \in 1..f.iterations : ~Crossed(self, j)
            /\ f.pc = "break" =>
                 /\ f.iterations >= 1 /\ Crossed(self, f.iterations)
                 /\ \A j \in 1..(f.iterations - 1) : ~Crossed(self, j)
            /\ HasReturned(c) =>
                 /\ f.iterations = ExpectedIterations(self)
                 /\ self._nombre_iterations = 0 =>
                      /\ heap[Val(f.retour).solution] = Equipements(ArgsOf(c).devices)
                      /\ f.visites = { Val(f.retour).objectif }

\* C20: the floor is tested only after an iteration's acceptance step and
\* cooling: a call (with a usable device and a non-zero tariff denominator)
\* runs exactly min(max_iterations, k) iterations, k the least integer >= 1
\* with initial_temperature * cooling_factor^k < minimum_temperature.  Once
\* the call is over that many iterations are done; in particular with
\* max_iterations >= 1 and initial_temperature < minimum_temperature one
\* full iteration is done, and with max_iterations = 0 the initial solution
\* is returned unchanged.
C20_IterationCount ==
    /\ CountOnReturn
    /\ \A c \in Calls :
         (Solvable(c) /\ ~InLoop(c)) =>
           /\ frame[c].iterations = ExpectedIterations(self)
           /\ (self._nombre_iterations >= 1
                 /\ self._temperature_initiale < self._temperature_minimale)
                => frame[c].iterations = 1

====
